---- MODULE Spec2Model ----
(***************************************************************************)
(* A model of IgePathFinder.aStar (src/engine/core/IgePathFinder.js) and   *)
(* of IgeAnimationComponent (src/unnamed/part_000).                        *)
(*                                                                         *)
(* One behaviour is one caller: it holds a tile map, a comparison          *)
(* callback, a start point object, an end point and the two movement       *)
(* flags, and calls aStar.  The call is split at the places where the      *)
(* source can leave or re-enter its while loop: the destination check,     *)
(* the seeding of the open list, and one step per loop iteration.          *)
(*                                                                         *)
(* Numbers that the source stores in `score` and `h` are kept in tenths    *)
(* (fixed point), so that the weight 1.4 of a diagonal step is the         *)
(* integer 14 and the weight 1 of a square step is the integer 10.         *)
(* JavaScript's undefined is the number -1 in those fields (no score is    *)
(* negative) and the empty tuple in `hash`.                                *)
(*                                                                         *)
(* The animation component shares no state with the path finder.  Its     *)
(* behaviours are those of SpecAnim, in which no search is called; in      *)
(* Spec and SpecRepeat no animation is defined.                            *)
(***************************************************************************)
EXTENDS Integers, Sequences, FiniteSets

VARIABLES
    pc,                 \* "ready" | "loop" | "returned": where the call is
    tileMap,            \* the caller's map: [w, h, walls]
    comparisonCallback, \* the caller's predicate, by name
    startPoint,         \* the caller's start point object (aStar writes to it)
    endPoint,           \* the caller's end point: [x, y]
    allowSquare,
    allowDiagonal,
    openList,           \* sequence of nodes (JS index i is position i + 1)
    closedList,         \* sequence of expanded nodes; a link refers to a position
    openListHash,       \* set of hash keys
    closedListHash,     \* set of hash keys
    lowInd,             \* JS index chosen by the last selection scan
    currentNode,        \* node chosen by the last selection scan
    predicateCalls,     \* number of comparisonCallback invocations in this call
    emitted,            \* notifications of this call: <<[name, payload]>>
    logged,             \* log lines of this call, by key
    returned,           \* the array aStar returned
    calls,              \* number of aStar calls started by the caller
    prevReturned,       \* what the previous call returned
    prevEmitted,        \* what the previous call emitted
    animObjects,        \* the objects made by define(); a reference is a position
    _anims,             \* this._anims: animation id -> reference
    _animsLength,       \* this._anims.length
    _anim,              \* this._anim: reference of the running animation, or 0
    _animId,            \* this._animId
    cellCalls,          \* the calls this._entity.cell(cell): <<[frame, cell]>>
    warnings            \* log lines of start(), by animation id

vars == <<pc, tileMap, comparisonCallback, startPoint, endPoint, allowSquare,
          allowDiagonal, openList, closedList, openListHash, closedListHash,
          lowInd, currentNode, predicateCalls, emitted, logged, returned,
          calls, prevReturned, prevEmitted>>

animVars ==
    <<animObjects, _anims, _animsLength, _anim, _animId, cellCalls, warnings>>

---------------------------------------------------------------------------
(* Bounds of the checked input space *)

GridW == 3
GridH == 2
MaxWalls == 2
OpenW == 4
OpenH == 5
MaxCalls == 2

---------------------------------------------------------------------------
(* Values *)

Undefined == 0 - 1
UndefinedHash == << >>

Abs(n) == IF n < 0 THEN 0 - n ELSE n

\* a number of the source as fixed point tenths
Tenths(n) == n * 10

\* JavaScript `a < b` on numbers where either may be undefined (NaN: false)
JsLess(a, b) == a # Undefined /\ b # Undefined /\ a < b

NoLink == [tag |-> "undefined", ref |-> 0]
NumberLink(n) == [tag |-> "number", ref |-> n]
NodeLink(i) == [tag |-> "node", ref |-> i]

\* JavaScript truthiness of a `link` field
Truthy(link) == link.tag = "node" \/ (link.tag = "number" /\ link.ref # 0)

\* new IgePoint(x, y): the caller's start point, no search fields yet
IgePoint(x, y) ==
    [x |-> x, y |-> y, score |-> Undefined, h |-> Undefined,
     link |-> NoLink, hash |-> UndefinedHash]

\* new IgePathNode(x, y, score): keyed by its coordinate
IgePathNode(x, y, score) ==
    [x |-> x, y |-> y, score |-> score, h |-> Undefined,
     link |-> NoLink, hash |-> <<x, y>>]

SquareWeight == 10
DiagonalWeight == 14

---------------------------------------------------------------------------
(* The map and the callback *)

\* mapData[y] && mapData[y][x] ? mapData[y][x] : null
TileData(map, x, y) ==
    IF x >= 0 /\ x < map.w /\ y >= 0 /\ y < map.h
    THEN IF <<x, y>> \in map.walls THEN "wall" ELSE "floor"
    ELSE "null"

\* the caller's predicates: "floorOnly" rejects walls and missing tiles,
\* "notWall" rejects walls only (a missing tile can be walked on)
Callback(name, tileData, x, y) ==
    IF name = "floorOnly" THEN tileData = "floor" ELSE tileData # "wall"

IsPassable(x, y) ==
    Callback(comparisonCallback, TileData(tileMap, x, y), x, y)

\* variant: the distance when a diagonal step counts as one
_heuristicChebyshev(x1, y1, x2, y2) ==
    IF Abs(x1 - x2) > Abs(y1 - y2) THEN Abs(x1 - x2) ELSE Abs(y1 - y2)

\* variant: the absolute value is taken of the sum of the differences
_heuristicAbsOfSum(x1, y1, x2, y2) == Abs((x1 - x2) + (y1 - y2))

_heuristic(x1, y1, x2, y2) == Abs(x1 - x2) + Abs(y1 - y2)

---------------------------------------------------------------------------
(* _getNeighbours *)

SquareOffsets == << <<0 - 1, 0>>, <<1, 0>>, <<0, 0 - 1>>, <<0, 1>> >>
DiagonalOffsets == << <<0 - 1, 0 - 1>>, <<1, 0 - 1>>, <<0 - 1, 1>>, <<1, 1>> >>

\* the four candidates of one movement kind, in source order, each kept
\* only if the callback accepts its tile
Candidates(offsets, x, y, weight) ==
    LET all == [i \in 1..4 |->
                   IgePathNode(x + offsets[i][1], y + offsets[i][2], weight)]
    IN  SelectSeq(all, LAMBDA n : IsPassable(n.x, n.y))

\* variant: the diagonal candidates are never generated
_getNeighboursSquareOnly(node, square, diagonal) ==
    IF square THEN Candidates(SquareOffsets, node.x, node.y, SquareWeight)
    ELSE << >>

_getNeighbours(node, square, diagonal) ==
    (IF square THEN Candidates(SquareOffsets, node.x, node.y, SquareWeight)
     ELSE << >>)
    \o
    (IF diagonal
     THEN Candidates(DiagonalOffsets, node.x, node.y, DiagonalWeight)
     ELSE << >>)

\* callback invocations made by one _getNeighbours call
NeighbourCallbackCalls(square, diagonal) ==
    (IF square THEN Len(SquareOffsets) ELSE 0)
    + (IF diagonal THEN Len(DiagonalOffsets) ELSE 0)

---------------------------------------------------------------------------
(* The selection scan: lowInd = 0; while (openCount--) if (h < h) ... *)

\* variant: the comparison is <= instead of <
RECURSIVE ScanLowIndOrEqual(_, _, _, _)
ScanLowIndOrEqual(list, openCount, stop, low) ==
    IF openCount = stop THEN low
    ELSE IF /\ list[openCount].h # Undefined
            /\ list[low + 1].h # Undefined
            /\ list[openCount].h <= list[low + 1].h
         THEN ScanLowIndOrEqual(list, openCount - 1, stop, openCount - 1)
         ELSE ScanLowIndOrEqual(list, openCount - 1, stop, low)

\* the iterations of the while loop that take openCount from `openCount`
\* down to `stop`: each decrements openCount and compares openList[openCount]
\* with openList[lowInd]
RECURSIVE ScanLowInd(_, _, _, _)
ScanLowInd(list, openCount, stop, low) ==
    IF openCount = stop THEN low
    ELSE IF JsLess(list[openCount].h, list[low + 1].h)
         THEN ScanLowInd(list, openCount - 1, stop, openCount - 1)
         ELSE ScanLowInd(list, openCount - 1, stop, low)

\* the whole while loop, run in stretches of 32 iterations (which keeps the
\* depth of the evaluation small for an open list of a thousand nodes)
RECURSIVE ScanFrom(_, _, _)
ScanFrom(list, openCount, low) ==
    IF openCount = 0 THEN low
    ELSE LET stop == IF openCount > 32 THEN openCount - 32 ELSE 0
             reached == ScanLowInd(list, openCount, stop, low)
         IN  IF reached >= 0 THEN ScanFrom(list, stop, reached) ELSE reached

\* lowInd = 0; openCount = openList.length; while (openCount--) { ... }
SelectLowInd(list) == ScanFrom(list, Len(list), 0)

---------------------------------------------------------------------------
(* The neighbour loop: while (neighborCount--) { ... } *)

\* the open list after the neighbours 1..neighborCount of neighbourList
\* have been handled, last first; `link` refers to the current node
RECURSIVE NeighbourLoop(_, _, _, _, _, _, _)
NeighbourLoop(neighbourList, neighborCount, open, openHash, closedHash, gScore, link) ==
    IF neighborCount = 0 THEN open
    ELSE
      LET neighbourNode == neighbourList[neighborCount]
          heuristic == Tenths(_heuristic(neighbourNode.x, neighbourNode.y,
                                         endPoint.x, endPoint.y))
          pushed == [neighbourNode EXCEPT
                        !.score = heuristic, !.link = link, !.h = heuristic]
          next ==
              IF neighbourNode.hash \in closedHash THEN open
              ELSE IF neighbourNode.hash \notin openHash
                   THEN Append(open, pushed)
                   \* keyed in the open list already: whether or not
                   \* gScore < neighbourNode.score, link and h are written
                   \* to the fresh neighbourNode only, which is then dropped
                   ELSE IF JsLess(gScore, neighbourNode.score) THEN open
                   ELSE open
      IN  NeighbourLoop(neighbourList, neighborCount - 1, next, openHash,
                        closedHash, gScore, link)

---------------------------------------------------------------------------
(* Path reconstruction: while (pathPoint.link) { push; pathPoint = link } *)

RECURSIVE FinalPath(_, _)
FinalPath(pathPoint, closed) ==
    IF ~Truthy(pathPoint.link) THEN << >>
    ELSE <<pathPoint>> \o
         (IF pathPoint.link.tag = "node"
          THEN FinalPath(closed[pathPoint.link.ref], closed)
          \* the link is the number 1, which has no link of its own
          ELSE << >>)

\* variant: the array is returned as it was collected
ReverseForgotten(s) == s

Reverse(s) == [i \in 1..Len(s) |-> s[Len(s) + 1 - i]]

RemoveAt(s, i) == SubSeq(s, 1, i - 1) \o SubSeq(s, i + 1, Len(s))

---------------------------------------------------------------------------
(* The callers that are checked *)

Cells(w, h) == (0..(w - 1)) \X (0..(h - 1))

Flags == BOOLEAN \X BOOLEAN

\* a GridW x GridH map with at most MaxWalls walls, a callback that
\* accepts floor only, start and end anywhere on the map
WalledScenarios ==
    {[map |-> [w |-> GridW, h |-> GridH, walls |-> ws],
      callback |-> "floorOnly", start |-> s, end |-> e,
      square |-> f[1], diagonal |-> f[2]] :
        ws \in {t \in SUBSET Cells(GridW, GridH) : Cardinality(t) <= MaxWalls},
        s \in Cells(GridW, GridH), e \in Cells(GridW, GridH), f \in Flags}

\* an OpenW x OpenH map without walls
OpenScenarios ==
    {[map |-> [w |-> OpenW, h |-> OpenH, walls |-> {}],
      callback |-> "floorOnly", start |-> s, end |-> e,
      square |-> f[1], diagonal |-> f[2]] :
        s \in Cells(OpenW, OpenH), e \in Cells(OpenW, OpenH), f \in Flags}

\* a floor tile enclosed by eight walls, on a plane that can be walked on
\* wherever there is no tile; the start is outside the map
Enclosure == [w |-> 3, h |-> 3, walls |-> Cells(3, 3) \ {<<1, 1>>}]

PlaneStarts == {<<4, 1>>, <<3, 1>>}

PlaneScenarios ==
    {[map |-> Enclosure, callback |-> "notWall", start |-> s, end |-> <<1, 1>>,
      square |-> TRUE, diagonal |-> TRUE] : s \in PlaneStarts}
    \cup
    {[map |-> Enclosure, callback |-> "notWall", start |-> s,
      end |-> <<0 - 1, 1>>, square |-> f[1], diagonal |-> f[2]] :
        s \in PlaneStarts, f \in Flags}

\* a map with one wall in the bottom row, between the start side and
\* the end point in the bottom left corner
DetourMap == [w |-> 4, h |-> 3, walls |-> {<<1, 2>>}]

DetourScenarios ==
    {[map |-> DetourMap, callback |-> "floorOnly", start |-> s,
      end |-> <<0, 2>>, square |-> TRUE, diagonal |-> d] :
        s \in Cells(4, 3) \ DetourMap.walls, d \in BOOLEAN}

Scenarios ==
    WalledScenarios \cup OpenScenarios \cup PlaneScenarios \cup DetourScenarios

---------------------------------------------------------------------------
(* aStar *)

OpenLimit == 999

NoNode == IgePoint(Undefined, Undefined)

\* variant: the closed hash is kept from one call to the next
StaleLocals ==
    /\ openList' = << >>
    /\ closedList' = << >>
    /\ openListHash' = {}
    /\ closedListHash' = closedListHash
    /\ lowInd' = Undefined
    /\ currentNode' = NoNode

\* var openList = [], closedList = [], openListHash = {}, ...
FreshLocals ==
    /\ openList' = << >>
    /\ closedList' = << >>
    /\ openListHash' = {}
    /\ closedListHash' = {}
    /\ lowInd' = Undefined
    /\ currentNode' = NoNode

\* IgeAnimationComponent.init: this._anims = {}, nothing defined or started
AnimationAtRest ==
    /\ animObjects = << >>
    /\ _anims = [id \in {} |-> 0]
    /\ _animsLength = 0
    /\ _anim = 0
    /\ _animId = "undefined"
    /\ cellCalls = << >>
    /\ warnings = << >>

Init ==
    \E sc \in Scenarios :
        /\ pc = "ready"
        /\ tileMap = sc.map
        /\ comparisonCallback = sc.callback
        /\ startPoint = IgePoint(sc.start[1], sc.start[2])
        /\ endPoint = [x |-> sc.end[1], y |-> sc.end[2]]
        /\ allowSquare = sc.square
        /\ allowDiagonal = sc.diagonal
        /\ openList = << >>
        /\ closedList = << >>
        /\ openListHash = {}
        /\ closedListHash = {}
        /\ lowInd = Undefined
        /\ currentNode = NoNode
        /\ predicateCalls = 0
        /\ emitted = << >>
        /\ logged = << >>
        /\ returned = << >>
        /\ calls = 1
        /\ prevReturned = << >>
        /\ prevEmitted = << >>
        /\ AnimationAtRest

Event(name, payload) == [name |-> name, payload |-> payload]

\* variant: the start point is pushed before the end tile is checked
DestinationRejectedAfterSeed ==
    /\ pc = "ready"
    /\ ~IsPassable(endPoint.x, endPoint.y)
    /\ predicateCalls' = predicateCalls + 1
    /\ logged' = Append(logged, "destinationNotPathable")
    /\ startPoint' = [startPoint EXCEPT !.link = NumberLink(1)]
    /\ openList' = Append(openList, startPoint')
    /\ openListHash' = openListHash \cup {startPoint.hash}
    /\ returned' = << >>
    /\ pc' = "returned"
    /\ UNCHANGED <<tileMap, comparisonCallback, endPoint, allowSquare,
                   allowDiagonal, closedList, closedListHash, lowInd,
                   currentNode, emitted, calls, prevReturned, prevEmitted>>
    /\ UNCHANGED animVars

\* lines 42-50: the end tile is rejected by the callback
DestinationRejected ==
    /\ pc = "ready"
    /\ ~IsPassable(endPoint.x, endPoint.y)
    /\ predicateCalls' = predicateCalls + 1
    /\ logged' = Append(logged, "destinationNotPathable")
    /\ returned' = << >>
    /\ pc' = "returned"
    /\ UNCHANGED <<tileMap, comparisonCallback, startPoint, endPoint,
                   allowSquare, allowDiagonal, openList, closedList,
                   openListHash, closedListHash, lowInd, currentNode, emitted,
                   calls, prevReturned, prevEmitted>>
    /\ UNCHANGED animVars

\* variant: the start point is pushed without link = 1
SeedWithoutLink ==
    /\ pc = "ready"
    /\ IsPassable(endPoint.x, endPoint.y)
    /\ predicateCalls' = predicateCalls + 1
    /\ startPoint' = startPoint
    /\ openList' = Append(openList, startPoint')
    /\ openListHash' = openListHash \cup {startPoint.hash}
    /\ pc' = "loop"
    /\ UNCHANGED <<tileMap, comparisonCallback, endPoint, allowSquare,
                   allowDiagonal, closedList, closedListHash, lowInd,
                   currentNode, emitted, logged, returned, calls,
                   prevReturned, prevEmitted>>
    /\ UNCHANGED animVars

\* lines 42-56: the end tile is accepted; the caller's start point object
\* gets link = 1 and is itself pushed on the open list (startNode is
\* created and never used)
Seed ==
    /\ pc = "ready"
    /\ IsPassable(endPoint.x, endPoint.y)
    /\ predicateCalls' = predicateCalls + 1
    /\ startPoint' = [startPoint EXCEPT !.link = NumberLink(1)]
    /\ openList' = Append(openList, startPoint')
    /\ openListHash' = openListHash \cup {startPoint.hash}
    /\ pc' = "loop"
    /\ UNCHANGED <<tileMap, comparisonCallback, endPoint, allowSquare,
                   allowDiagonal, closedList, closedListHash, lowInd,
                   currentNode, emitted, logged, returned, calls,
                   prevReturned, prevEmitted>>
    /\ UNCHANGED animVars

\* lines 59-65 then 132-135: the break leaves the loop and falls into the
\* code after it
ExceededLimit ==
    /\ pc = "loop"
    /\ Len(openList) > OpenLimit
    /\ logged' = logged \o <<"exceededLimit", "noPath">>
    /\ emitted' = emitted \o <<Event("exceededLimit", << >>),
                               Event("noPathFound", << >>)>>
    /\ returned' = << >>
    /\ pc' = "returned"
    /\ UNCHANGED <<tileMap, comparisonCallback, startPoint, endPoint,
                   allowSquare, allowDiagonal, openList, closedList,
                   openListHash, closedListHash, lowInd, currentNode,
                   predicateCalls, calls, prevReturned, prevEmitted>>
    /\ UNCHANGED animVars

\* variant: the nodes visited so far are returned when no path exists
NoPathFoundReturnsVisited ==
    /\ pc = "loop"
    /\ Len(openList) = 0
    /\ logged' = Append(logged, "noPath")
    /\ emitted' = Append(emitted, Event("noPathFound", << >>))
    /\ returned' = closedList
    /\ pc' = "returned"
    /\ UNCHANGED <<tileMap, comparisonCallback, startPoint, endPoint,
                   allowSquare, allowDiagonal, openList, closedList,
                   openListHash, closedListHash, lowInd, currentNode,
                   predicateCalls, calls, prevReturned, prevEmitted>>
    /\ UNCHANGED animVars

\* lines 59 and 132-135: the open list is empty
NoPathFound ==
    /\ pc = "loop"
    /\ Len(openList) = 0
    /\ logged' = Append(logged, "noPath")
    /\ emitted' = Append(emitted, Event("noPathFound", << >>))
    /\ returned' = << >>
    /\ pc' = "returned"
    /\ UNCHANGED <<tileMap, comparisonCallback, startPoint, endPoint,
                   allowSquare, allowDiagonal, openList, closedList,
                   openListHash, closedListHash, lowInd, currentNode,
                   predicateCalls, calls, prevReturned, prevEmitted>>
    /\ UNCHANGED animVars

\* lines 67-90: the selected node is the end point; the listener gets
\* finalPath as it is when emit is called, reverse() comes after
PathFound ==
    /\ pc = "loop"
    /\ Len(openList) > 0
    /\ ~(Len(openList) > OpenLimit)
    /\ lowInd' = SelectLowInd(openList)
    /\ currentNode' = openList[lowInd' + 1]
    /\ currentNode'.x = endPoint.x /\ currentNode'.y = endPoint.y
    /\ emitted' = Append(emitted,
                      Event("pathFound", FinalPath(currentNode', closedList)))
    /\ returned' = Reverse(FinalPath(currentNode', closedList))
    /\ pc' = "returned"
    /\ UNCHANGED <<tileMap, comparisonCallback, startPoint, endPoint,
                   allowSquare, allowDiagonal, openList, closedList,
                   openListHash, closedListHash, predicateCalls, logged,
                   calls, prevReturned, prevEmitted>>
    /\ UNCHANGED animVars

\* lines 67-75 and 91-128: the selected node moves from the open list to
\* the closed list and its neighbours are handled
Expand ==
    /\ pc = "loop"
    /\ Len(openList) > 0
    /\ ~(Len(openList) > OpenLimit)
    /\ lowInd' = SelectLowInd(openList)
    /\ currentNode' = openList[lowInd' + 1]
    /\ ~(currentNode'.x = endPoint.x /\ currentNode'.y = endPoint.y)
    /\ openListHash' = openListHash \ {currentNode'.hash}
    /\ closedList' = Append(closedList, currentNode')
    /\ closedListHash' = closedListHash \cup {currentNode'.hash}
    /\ LET neighbourList ==
               _getNeighbours(currentNode', allowSquare, allowDiagonal)
       IN  openList' =
               NeighbourLoop(neighbourList, Len(neighbourList),
                             RemoveAt(openList, lowInd' + 1), openListHash',
                             closedListHash', currentNode'.score,
                             NodeLink(Len(closedList'))) 
    /\ predicateCalls' =
           predicateCalls + NeighbourCallbackCalls(allowSquare, allowDiagonal)
    /\ UNCHANGED <<pc, tileMap, comparisonCallback, startPoint, endPoint,
                   allowSquare, allowDiagonal, emitted, logged, returned,
                   calls, prevReturned, prevEmitted>>
    /\ UNCHANGED animVars

\* the caller calls aStar again with the same arguments, the same start
\* point object included
CallAgain ==
    /\ pc = "returned"
    /\ calls < MaxCalls
    /\ calls' = calls + 1
    /\ prevReturned' = returned
    /\ prevEmitted' = emitted
    /\ FreshLocals
    /\ predicateCalls' = 0
    /\ emitted' = << >>
    /\ logged' = << >>
    /\ returned' = << >>
    /\ pc' = "ready"
    /\ UNCHANGED <<tileMap, comparisonCallback, startPoint, endPoint,
                   allowSquare, allowDiagonal>>
    /\ UNCHANGED animVars

Next ==
    \/ DestinationRejected
    \/ Seed
    \/ ExceededLimit
    \/ NoPathFound
    \/ PathFound
    \/ Expand

Spec == Init /\ [][Next]_vars

NextRepeat == Next \/ CallAgain

SpecRepeat == Init /\ [][NextRepeat]_vars

---------------------------------------------------------------------------
(* IgeAnimationComponent: numbers *)

\* A JavaScript number that holds an integer is kept as the pair <<h, l>>,
\* which stands for h * 2^16 + l with 0 <= l < 2^16: the values of the
\* component pass 2^31, where x|0 stops being the floor of x
Half == 2^16

Wide(h, l) == <<h + (l \div Half), l % Half>>

Number(n) == Wide(0, n)

Value(a) == a[1] * Half + a[2]

\* a + b, a - b
Plus(a, b) == Wide(a[1] + b[1], a[2] + b[2])
Minus(a, b) == Wide(a[1] - b[1], a[2] - b[2])

\* a * n for a plain integer n
Times(a, n) == Wide(a[1] * n, a[2] * n)

\* a > b
Greater(a, b) == a[1] > b[1] \/ (a[1] = b[1] /\ a[2] > b[2])

\* the integer part of a / n, for a >= 0 and a plain integer n > 0
Quotient(a, n) == <<a[1] \div n, ((a[1] % n) * Half + a[2]) \div n>>

\* x|0 for an integer x: the low 32 bits, read as a signed number
ToInt32(a) ==
    LET h == a[1] % Half
    IN  <<IF h >= Half \div 2 THEN h - Half ELSE h, a[2]>>

\* ((1000 / fps)|0)
FrameTime(fps) == Value(ToInt32(Quotient(Number(1000), fps)))

---------------------------------------------------------------------------
(* IgeAnimationComponent: the calls that are checked *)

MaxDefines == 1
MaxTicks == 3
MaxWarnings == 1

AnimIds == {"walk"}

\* the cells of an animation, by name
FrameLists == {<< >>, <<"a">>, <<"a", "b", "c">>}

\* frames per second, none above 1000 (the frame time is 1 ms at least)
FpsValues == {1000, 300}

\* loop: 0 for no loop (any falsy value), -1 for ever, n > 0 for n loops
LoopValues == {0, 0 - 1, 1, 2}

\* ige.tickDelta in ms: 0, 1, 4 and 2^31 (a tick after 24.9 days of sleep)
TickDeltas == {Number(0), Number(1), Number(4), Wide(Half \div 2, 0)}

---------------------------------------------------------------------------
(* IgeAnimationComponent: define, start, stop, tick *)

\* no search is called: the path finder's variables at rest
SearchAtRest ==
    /\ pc = "idle"
    /\ tileMap = [w |-> 0, h |-> 0, walls |-> {}]
    /\ comparisonCallback = "floorOnly"
    /\ startPoint = IgePoint(0, 0)
    /\ endPoint = [x |-> 0, y |-> 0]
    /\ allowSquare = TRUE
    /\ allowDiagonal = FALSE
    /\ openList = << >>
    /\ closedList = << >>
    /\ openListHash = {}
    /\ closedListHash = {}
    /\ lowInd = Undefined
    /\ currentNode = NoNode
    /\ predicateCalls = 0
    /\ emitted = << >>
    /\ logged = << >>
    /\ returned = << >>
    /\ calls = 0
    /\ prevReturned = << >>
    /\ prevEmitted = << >>

InitAnim == SearchAtRest /\ AnimationAtRest

\* lines 31-47: a new object is stored under id, whatever was there
Define ==
    \E id \in AnimIds, frames \in FrameLists, fps \in FpsValues,
       loop \in LoopValues :
        /\ _animsLength < MaxDefines
        /\ LET frameTime == FrameTime(fps)
           IN  animObjects' =
                   Append(animObjects,
                          [frames |-> frames,
                           frameTime |-> frameTime,
                           loop |-> loop,
                           frameCount |-> Len(frames),
                           totalTime |-> Len(frames) * frameTime,
                           currentDelta |-> Number(0),
                           currentLoop |-> 0])
        /\ _anims' = [i \in DOMAIN _anims \cup {id} |->
                         IF i = id THEN Len(animObjects') ELSE _anims[i]]
        /\ _animsLength' = _animsLength + 1
        /\ UNCHANGED <<_anim, _animId, cellCalls, warnings>>
        /\ UNCHANGED vars

\* lines 49-66: this._anims is always set, so the outer else is never
\* taken; startTime, which nothing reads, is left out
Start ==
    \E animId \in AnimIds :
        /\ IF animId \in DOMAIN _anims
           THEN /\ animObjects' =
                       [animObjects EXCEPT
                           ![_anims[animId]].currentDelta = Number(0),
                           ![_anims[animId]].currentLoop = 0]
                /\ _anim' = _anims[animId]
                /\ _animId' = animId
                /\ UNCHANGED warnings
           ELSE /\ Len(warnings) < MaxWarnings
                /\ warnings' = Append(warnings, animId)
                /\ UNCHANGED <<animObjects, _anim, _animId>>
        /\ UNCHANGED <<_anims, _animsLength, cellCalls>>
        /\ UNCHANGED vars

\* lines 68-71
Stop ==
    /\ _anim' = 0
    /\ _animId' = "undefined"
    /\ UNCHANGED <<animObjects, _anims, _animsLength, cellCalls, warnings>>
    /\ UNCHANGED vars

\* lines 92-95 and 100-103: multiple = currentDelta / totalTime;
\* if (Math.abs(multiple) > 1) currentDelta -= (multiple|0) * totalTime.
\* With totalTime = 0 the quotient is Infinity and Infinity|0 is 0.
LoopBack(currentDelta, totalTime) ==
    IF totalTime = 0 THEN currentDelta
    ELSE IF Greater(currentDelta, Number(totalTime))
         THEN Minus(currentDelta,
                    Times(ToInt32(Quotient(currentDelta, totalTime)),
                          totalTime))
         ELSE currentDelta

\* lines 113-117: frame = (currentDelta / frameTime)|0, cut at the last frame
Frame(currentDelta, frameTime, frameCount) ==
    LET frame == Value(ToInt32(Quotient(currentDelta, frameTime)))
    IN  IF frame >= frameCount THEN frameCount - 1 ELSE frame

\* line 119: frames[frame], undefined outside the array
Cell(frames, frame) ==
    IF frame >= 0 /\ frame < Len(frames) THEN frames[frame + 1]
    ELSE "undefined"

\* lines 73-123; without a running animation line 81 throws and nothing
\* is changed.  stop() deletes this._anim, the local anim is used on.
Tick ==
    \E tickDelta \in TickDeltas :
        /\ _anim # 0
        /\ Len(cellCalls) < MaxTicks
        /\ LET anim == animObjects[_anim]
               advanced == Plus(anim.currentDelta, tickDelta)
               overrun == Greater(advanced, Number(anim.totalTime))
               counted == overrun /\ anim.loop # 0 /\ anim.loop # 0 - 1
               currentLoop ==
                   IF counted THEN anim.currentLoop + 1 ELSE anim.currentLoop
               loopsBack ==
                   /\ overrun
                   /\ \/ anim.loop = 0 - 1
                      \/ counted /\ anim.loop > 0 /\ currentLoop <= anim.loop
               stops == overrun /\ ~loopsBack
               currentDelta ==
                   IF loopsBack THEN LoopBack(advanced, anim.totalTime)
                   ELSE advanced
               frame == Frame(currentDelta, anim.frameTime, anim.frameCount)
           IN  /\ animObjects' =
                      [animObjects EXCEPT ![_anim].currentDelta = currentDelta,
                                          ![_anim].currentLoop = currentLoop]
               /\ _anim' = IF stops THEN 0 ELSE _anim
               /\ _animId' = IF stops THEN "undefined" ELSE _animId
               /\ cellCalls' =
                      Append(cellCalls,
                             [frame |-> frame, cell |-> Cell(anim.frames, frame)])
        /\ UNCHANGED <<_anims, _animsLength, warnings>>
        /\ UNCHANGED vars

NextAnim ==
    \/ Define
    \/ Start
    \/ Stop
    \/ Tick

SpecAnim == InitAnim /\ [][NextAnim]_animVars

---------------------------------------------------------------------------
(* Vocabulary of the properties *)

Names(events) == [i \in 1..Len(events) |-> events[i].name]

Points(path) == [i \in 1..Len(path) |-> <<path[i].x, path[i].y>>]

EmittedNames == {emitted[i].name : i \in 1..Len(emitted)}

\* the notification the specification calls limitExceeded is emitted by
\* the source under the name exceededLimit
Outcomes == {"pathFound", "noPathFound", "exceededLimit"}

Returned == pc = "returned"

StartXY == <<startPoint.x, startPoint.y>>
EndXY == <<endPoint.x, endPoint.y>>

OnMap(c) == c \in Cells(tileMap.w, tileMap.h)

\* a move from cell a to cell b that the flags allow
AllowedMove(a, b) ==
    LET dx == Abs(a[1] - b[1])
        dy == Abs(a[2] - b[2])
    IN  \/ allowSquare /\ dx + dy = 1
        \/ allowDiagonal /\ dx = 1 /\ dy = 1

\* the cells that can be reached from the start by allowed moves over
\* cells the callback accepts (for a callback that rejects missing tiles)
RECURSIVE ReachFrom(_)
ReachFrom(seen) ==
    LET more == {c \in Cells(tileMap.w, tileMap.h) :
                    /\ c \notin seen
                    /\ IsPassable(c[1], c[2])
                    /\ \E p \in seen : AllowedMove(p, c)}
    IN  IF more = {} THEN seen ELSE ReachFrom(seen \cup more)

Reachable == ReachFrom({StartXY})

---------------------------------------------------------------------------
(* C1: every call of aStar emits exactly one outcome notification          *)
(* (pathFound, noPathFound or the limit notification), however it ends.    *)
(* This is the claim as stated; the source emits nothing when the end      *)
(* tile is rejected and two notifications when the cutoff triggers.        *)
C1_ExactlyOneNotification ==
    Returned => /\ Len(emitted) = 1
                /\ emitted[1].name \in Outcomes

---------------------------------------------------------------------------
(* C2: a non-empty returned sequence starts at start, ends at end, moves   *)
(* by one allowed step between consecutive points, and every point after   *)
(* the first is a cell the callback accepts.                               *)
C2_ReturnedPathIsValid ==
    (Returned /\ Len(returned) > 0) =>
        LET pts == Points(returned)
        IN  /\ pts[1] = StartXY
            /\ pts[Len(pts)] = EndXY
            /\ \A i \in 1..(Len(pts) - 1) : AllowedMove(pts[i], pts[i + 1])
            /\ \A i \in 2..Len(pts) : IsPassable(pts[i][1], pts[i][2])

\* a returned path with a square step and a diagonal step
C2_Witness ==
    /\ Returned
    /\ Len(returned) >= 4
    /\ \E i \in 1..(Len(returned) - 1) :
           returned[i].x # returned[i + 1].x /\ returned[i].y # returned[i + 1].y
    /\ \E i \in 1..(Len(returned) - 1) :
           returned[i].x = returned[i + 1].x \/ returned[i].y = returned[i + 1].y

---------------------------------------------------------------------------
(* C3: on a finite map with a callback that rejects missing tiles and      *)
(* accepts the end tile, when the cutoff does not trigger: a reachable     *)
(* end gives a non-empty path and pathFound, an unreachable end gives an   *)
(* empty sequence and noPathFound.                                         *)
C3_FoundIffReachable ==
    (/\ Returned
     /\ comparisonCallback = "floorOnly"
     /\ IsPassable(endPoint.x, endPoint.y)
     /\ "exceededLimit" \notin EmittedNames) =>
        IF EndXY \in Reachable
        THEN Len(returned) > 0 /\ Names(emitted) = <<"pathFound">>
        ELSE Len(returned) = 0 /\ Names(emitted) = <<"noPathFound">>

\* a path around a wall has been found
C3_WitnessReachable ==
    /\ Returned
    /\ comparisonCallback = "floorOnly"
    /\ tileMap.walls # {}
    /\ EndXY \in Reachable
    /\ Len(returned) >= 4

\* an accepted end tile cut off from the start by walls, after a search
\* that expanded several nodes
C3_WitnessIsolated ==
    /\ Returned
    /\ comparisonCallback = "floorOnly"
    /\ allowSquare
    /\ IsPassable(endPoint.x, endPoint.y)
    /\ EndXY \notin Reachable
    /\ Len(closedList) >= 3
    /\ Names(emitted) = <<"noPathFound">>

---------------------------------------------------------------------------
(* C4: when the callback rejects the end tile, aStar returns an empty      *)
(* sequence at once: nothing is put on the open list, nothing is           *)
(* expanded, and the callback has been invoked exactly once.               *)
C4_RejectedDestinationStopsAtOnce ==
    ~IsPassable(endPoint.x, endPoint.y) =>
        /\ openList = << >>
        /\ closedList = << >>
        /\ pc # "loop"
        /\ Returned => (returned = << >> /\ predicateCalls = 1)

C4_Witness ==
    /\ Returned
    /\ ~IsPassable(endPoint.x, endPoint.y)
    /\ StartXY # EndXY
    /\ IsPassable(startPoint.x, startPoint.y)
    /\ predicateCalls = 1

---------------------------------------------------------------------------
(* C5: the cutoff aborts the search exactly when the open list holds more  *)
(* than 1000 entries (a list that reaches 1000 and never exceeds it is not *)
(* aborted), and an aborted search emits the limit notification and        *)
(* returns an empty sequence.  This is the claim as stated; the source     *)
(* aborts at 1000 entries.                                                 *)
LoggedLimit == 1000

CutoffTriggered == "exceededLimit" \in EmittedNames

C5_AbortedOnlyAboveThousand ==
    /\ (pc = "loop" /\ Len(openList) > LoggedLimit) => ENABLED ExceededLimit
    /\ (Returned /\ CutoffTriggered) =>
           /\ Len(openList) > LoggedLimit
           /\ returned = << >>

---------------------------------------------------------------------------
(* C6: the node selected for expansion has the smallest h of the open      *)
(* list.  As amended: when the node at index 0 is one of the nodes with    *)
(* the smallest h, index 0 is selected; otherwise the selected node is     *)
(* the one of them that the scan (which runs from the last index down)     *)
(* meets first, the one with the greatest index.                           *)

\* no node of the list has a smaller h than the node at position k
MinimalAt(list, k) == \A j \in 1..Len(list) : ~JsLess(list[j].h, list[k].h)

\* the step about to be taken runs the selection scan
Selecting == pc = "loop" /\ Len(openList) > 0 /\ ~(Len(openList) > OpenLimit)

C6_SelectionRule ==
    [][Selecting =>
         LET k == lowInd' + 1
         IN  /\ k \in 1..Len(openList)
             /\ currentNode' = openList[k]
             /\ MinimalAt(openList, k)
             /\ IF MinimalAt(openList, 1) THEN k = 1
                ELSE \A j \in 1..Len(openList) :
                         MinimalAt(openList, j) => j <= k]_vars

\* the claim as stated: of the nodes with the smallest h, the one the
\* scan meets first is selected, whatever the open list holds
C6_FirstScannedMinimumWins ==
    [][Selecting =>
         LET k == lowInd' + 1
         IN  /\ k \in 1..Len(openList)
             /\ MinimalAt(openList, k)
             /\ \A j \in 1..Len(openList) :
                    MinimalAt(openList, j) => j <= k]_vars

\* index 0 was selected while a node at a later index, already on the
\* open list during that scan, had the same h
C6_Witness ==
    /\ pc = "loop"
    /\ lowInd = 0
    /\ currentNode.h # Undefined
    /\ \E j \in 1..Len(openList) :
           /\ openList[j].h = currentNode.h
           /\ openList[j].link # NodeLink(Len(closedList))

---------------------------------------------------------------------------
(* C7: on a map without walls, with a callback that rejects only missing   *)
(* tiles and with square movement only, the returned path has              *)
(* |dx| + |dy| + 1 points; from (0,0) to (3,4) it has 8.                   *)
OpenGrid ==
    /\ comparisonCallback = "floorOnly"
    /\ tileMap.walls = {}
    /\ OnMap(StartXY)
    /\ OnMap(EndXY)

C7_OpenGridPathLength ==
    (Returned /\ OpenGrid /\ allowSquare /\ ~allowDiagonal) =>
        Len(returned) =
            Abs(startPoint.x - endPoint.x) + Abs(startPoint.y - endPoint.y) + 1

C7_Witness ==
    /\ Returned
    /\ OpenGrid /\ allowSquare /\ ~allowDiagonal
    /\ StartXY = <<0, 0>>
    /\ EndXY = <<3, 4>>
    /\ Len(returned) = 8

---------------------------------------------------------------------------
(* C8: the score of every node of a returned path is the accumulated cost  *)
(* of reaching it, 1.0 per square step and 1.4 per diagonal step along     *)
(* the path from the start.  This is the claim as stated, for the nodes    *)
(* the search created; the source stores the heuristic in score.           *)
StepWeight(a, b) ==
    IF a.x # b.x /\ a.y # b.y THEN DiagonalWeight ELSE SquareWeight

\* the cost, in tenths, of the steps that lead to the i-th point of path
RECURSIVE PathCost(_, _)
PathCost(path, i) ==
    IF i <= 1 THEN 0
    ELSE PathCost(path, i - 1) + StepWeight(path[i - 1], path[i])

C8_ScoreIsAccumulatedCost ==
    Returned =>
        \A i \in 2..Len(returned) : returned[i].score = PathCost(returned, i)

---------------------------------------------------------------------------
(* C9: a call that does not reach the goal (end tile rejected, cutoff      *)
(* triggered, open list exhausted) returns an empty sequence, no node      *)
(* carries a link that path reconstruction could not follow, and a         *)
(* non-empty sequence is returned only together with pathFound.            *)
\* a link that path reconstruction can follow without a missing node
FollowableLink(link) ==
    \/ link = NumberLink(1)
    \/ link.tag = "node" /\ link.ref \in 1..Len(closedList)

C9_FailuresReturnEmpty ==
    /\ \A i \in 1..Len(openList) : FollowableLink(openList[i].link)
    /\ \A i \in 1..Len(closedList) : FollowableLink(closedList[i].link)
    /\ Returned =>
           /\ (\/ ~IsPassable(endPoint.x, endPoint.y)
               \/ CutoffTriggered
               \/ Len(openList) = 0) => returned = << >>
           /\ returned # << >> => Names(emitted) = <<"pathFound">>

\* the open list ran empty after a search that expanded several nodes
C9_Witness ==
    /\ Returned
    /\ IsPassable(endPoint.x, endPoint.y)
    /\ Len(openList) = 0
    /\ Len(closedList) >= 3
    /\ returned = << >>

---------------------------------------------------------------------------
(* C10: a second call with the same map, callback, start, end and flags,   *)
(* made with the start point object of the first call, returns the same    *)
(* points and emits the same notifications, also where open nodes tie on   *)
(* the smallest h.                                                         *)
C10_SecondCallRepeatsFirst ==
    (Returned /\ calls >= 2) =>
        /\ Points(returned) = Points(prevReturned)
        /\ Names(emitted) = Names(prevEmitted)

\* a second call that found a path of several steps while two nodes of
\* its open list had the same h
C10_Witness ==
    /\ Returned
    /\ calls = 2
    /\ Len(returned) >= 3
    /\ \E i, j \in 1..Len(openList) : i # j /\ openList[i].h = openList[j].h

---------------------------------------------------------------------------
(* C11: between loop iterations each coordinate occupies at most one slot  *)
(* across the open and the closed list: the open list never holds two      *)
(* nodes with the same coordinate, and no coordinate of the open list is   *)
(* also on the closed list.  This is the claim as stated; the source       *)
(* never keys a pushed neighbour in openListHash, so a coordinate is       *)
(* pushed again by every expansion that generates it.                      *)
XY(node) == <<node.x, node.y>>

ClosedCoordinates == {XY(closedList[i]) : i \in 1..Len(closedList)}

\* the open list never holds two nodes with the same coordinate
OpenHasNoDuplicate ==
    \A i, j \in 1..Len(openList) : i # j => XY(openList[i]) # XY(openList[j])

\* no coordinate of the open list is also on the closed list
OpenDisjointFromClosed ==
    \A i \in 1..Len(openList) : XY(openList[i]) \notin ClosedCoordinates

C11_OneSlotPerCoordinate ==
    pc = "loop" => (OpenHasNoDuplicate /\ OpenDisjointFromClosed)

---------------------------------------------------------------------------
(* C12: every coordinate, the start coordinate included, is expanded at    *)
(* most once per call, so that the number of expansions never exceeds the  *)
(* number of cells reachable from the start.  This is the claim as         *)
(* stated; the source selects and expands every copy of a coordinate that  *)
(* the open list holds, closed or not.                                     *)

\* every expansion appends the expanded node to the closed list
NoCoordinateExpandedTwice ==
    \A i, j \in 1..Len(closedList) :
        i # j => XY(closedList[i]) # XY(closedList[j])

C12_ExpandedAtMostOnce ==
    /\ NoCoordinateExpandedTwice
    /\ comparisonCallback = "floorOnly" =>
           Len(closedList) <= Cardinality(Reachable)

---------------------------------------------------------------------------
(* C13: once a coordinate has been added to the closed list it stays there *)
(* for the rest of the call, and no node with that coordinate is pushed    *)
(* onto the open list afterwards, the start coordinate included.  This is  *)
(* the claim as stated; the source pushes the caller's start point, which  *)
(* carries no hash, so closing it keys nothing that a later neighbour at   *)
(* the start coordinate would be tested against.                           *)

\* an expansion removes one node of the open list and pushes the new ones
\* at its end: they are the last Len(openList') - Len(openList) + 1 nodes
PushedPositions == Len(openList)..Len(openList')

Expanding == closedList' # closedList

ClosedStaysClosed == ClosedCoordinates \subseteq ClosedCoordinates'

NoClosedCoordinatePushed ==
    Expanding =>
        \A j \in PushedPositions : XY(openList'[j]) \notin ClosedCoordinates'

C13_ClosedNeverReentersOpen ==
    [][ClosedStaysClosed /\ NoClosedCoordinatePushed]_vars

---------------------------------------------------------------------------
(* C14: when an expansion generates a neighbour whose coordinate is on the *)
(* open list already (and not closed), then, if the score of the current   *)
(* node is less than the score stored on that open node, the stored node   *)
(* gets the current node as its link and its stored score as its h; if it  *)
(* is not less, the stored node is left as it was.  This is the claim as   *)
(* stated; the source never finds a coordinate on the open list (see C11), *)
(* pushes a second node and leaves the stored one as it was in both cases. *)

\* the coordinates of the neighbours that the expansion of `node` generates
Generated(node) ==
    LET list == _getNeighbours(node, allowSquare, allowDiagonal)
    IN  {XY(list[i]) : i \in 1..Len(list)}

\* the node stored at position j of the open list, after the expansion
\* that removed the node at position lowInd + 1
StoredAfter(j) == IF j < lowInd' + 1 THEN openList'[j] ELSE openList'[j - 1]

StoredNodeRule(j) ==
    IF JsLess(currentNode'.score, openList[j].score)
    THEN /\ StoredAfter(j).link = NodeLink(Len(closedList'))
         /\ StoredAfter(j).h = openList[j].score
    ELSE StoredAfter(j) = openList[j]

C14_StoredNodeUpdated ==
    [][Expanding =>
          \A j \in 1..Len(openList) :
              (/\ j # lowInd' + 1
               /\ XY(openList[j]) \in Generated(currentNode')
               /\ XY(openList[j]) \notin ClosedCoordinates')
                  => StoredNodeRule(j)]_vars

---------------------------------------------------------------------------
(* C15: every node that an expansion pushes onto the open list has, when   *)
(* it is pushed, an h equal to the Manhattan distance from its own         *)
(* coordinate to the end point, |x - end.x| + |y - end.y|, whatever the    *)
(* path that reached it, and its link is the node being expanded (the one  *)
(* the expansion has just put on the closed list).                         *)

\* |x - end.x| + |y - end.y|; the model holds h and score in tenths
Manhattan(node) ==
    (IF node.x >= endPoint.x THEN node.x - endPoint.x ELSE endPoint.x - node.x)
    + (IF node.y >= endPoint.y THEN node.y - endPoint.y ELSE endPoint.y - node.y)

C15_PushedPriorityAndLink ==
    [][Expanding =>
          /\ closedList'[Len(closedList')] = currentNode'
          /\ \A j \in PushedPositions :
                 /\ openList'[j].h = 10 * Manhattan(openList'[j])
                 /\ openList'[j].link = NodeLink(Len(closedList'))]_vars

\* a node pushed by the second expansion or a later one, off the row and
\* off the column of the end point
C15_Witness ==
    /\ pc = "loop"
    /\ \E j \in 1..Len(openList) :
           /\ openList[j].link.tag = "node"
           /\ openList[j].link.ref >= 2
           /\ openList[j].x # endPoint.x
           /\ openList[j].y # endPoint.y
           /\ openList[j].h = 10 * Manhattan(openList[j])

---------------------------------------------------------------------------
(* C16: when the end node is selected, the chain of links is collected     *)
(* from the end back to the start and reversed before pathFound is         *)
(* emitted, so that the payload the listener gets when the notification    *)
(* is emitted lists the path from start to end and equals the sequence     *)
(* that aStar then returns.  This is the claim as stated; the source       *)
(* emits first and reverses in the return statement.                       *)
C16_PayloadIsReturnedPath ==
    Returned =>
        \A i \in 1..Len(emitted) :
            emitted[i].name = "pathFound" =>
                /\ Points(emitted[i].payload) = Points(returned)
                /\ Points(emitted[i].payload)[1] = StartXY

---------------------------------------------------------------------------
(* C17: aStar leaves its inputs as they were: after a call, whatever its   *)
(* outcome, the start point carries the fields and values it had before    *)
(* the call, with nothing of the search attached to it.  This is the       *)
(* claim as stated; the source sets link = 1 on the caller's start point   *)
(* and pushes that very object.                                            *)
C17_StartPointAsBefore ==
    Returned => startPoint = IgePoint(startPoint.x, startPoint.y)

---------------------------------------------------------------------------
(* C18: with square movement only, a returned path has the least number    *)
(* of steps of all paths from the start to the end point over tiles the    *)
(* callback accepts, on every map, walls between start and end included.   *)
(* This is the claim as stated; the source selects by the distance to the  *)
(* end point alone and never looks at the length of the path walked.       *)

\* the number of rounds of allowed moves after which the end point is
\* among the cells reached from `seen` (the end point is reachable)
RECURSIVE StepsToEnd(_, _)
StepsToEnd(seen, n) ==
    IF EndXY \in seen THEN n
    ELSE StepsToEnd(seen \cup {c \in Cells(tileMap.w, tileMap.h) :
                                  /\ IsPassable(c[1], c[2])
                                  /\ \E p \in seen : AllowedMove(p, c)},
                    n + 1)

ShortestSteps == StepsToEnd({StartXY}, 0)

C18_SquarePathIsShortest ==
    (/\ Returned
     /\ Len(returned) > 0
     /\ allowSquare /\ ~allowDiagonal
     /\ comparisonCallback = "floorOnly")
        => Len(returned) - 1 = ShortestSteps

---------------------------------------------------------------------------
(* C19: when the start and the end point are the same coordinate and the   *)
(* callback accepts the end tile, aStar returns the sequence of one point, *)
(* the start, and emits pathFound, without expanding a node and without    *)
(* calling the callback for a neighbour (the one call is that of the end   *)
(* tile), whatever the movement flags.                                     *)
StartIsEnd == StartXY = EndXY /\ IsPassable(endPoint.x, endPoint.y)

C19_StartIsEndReturnsStart ==
    (Returned /\ StartIsEnd) =>
        /\ Points(returned) = <<StartXY>>
        /\ Names(emitted) = <<"pathFound">>
        /\ closedList = << >>
        /\ predicateCalls = 1

\* such a call has returned, with diagonal movement only
C19_Witness ==
    /\ Returned
    /\ StartIsEnd
    /\ ~allowSquare /\ allowDiagonal
    /\ Len(returned) = 1

---------------------------------------------------------------------------
(* C20: for a running animation with one frame at least and a frame time   *)
(* of 1 ms at least, every tick (the tick deltas are non-negative          *)
(* integers) passes to the entity a cell of the animation's frames: the    *)
(* frame index is within 0..frameCount - 1, in every loop mode, on the     *)
(* tick that overruns the total time and stops the animation too.  This    *)
(* is the claim as stated; in the source the index is a 32 bit             *)
(* conversion, negative from 2^31 on, and only its upper end is cut.       *)
Ticking == cellCalls' # cellCalls

C20_FrameWithinFrames ==
    [][Ticking =>
          LET anim == animObjects[_anim]
              call == cellCalls'[Len(cellCalls')]
          IN  (anim.frameCount >= 1 /\ anim.frameTime >= 1) =>
                  /\ call.frame \in 0..(anim.frameCount - 1)
                  /\ call.cell = anim.frames[call.frame + 1]]_animVars

====
